---- MODULE Spec2Model ----
(***************************************************************************)
(* Model of sktime's series meta-transformers (transformations/series/     *)
(* compose.py: OptionalPassthrough, ColumnwiseTransformer) and of the      *)
(* classifier conformance tests (classification/tests/                     *)
(* test_all_classifiers.py: TestAllClassifiers).                           *)
(*                                                                         *)
(* Objects are held by reference: heap[1] is the object passed as the      *)
(* `transformer` parameter, clones are appended behind it.                 *)
(***************************************************************************)
EXTENDS Integers, Sequences, FiniteSets, TLC

VARIABLES
    heap,           \* wrapped transformer objects, by reference (1 = self.transformer)
    passthrough,    \* OptionalPassthrough.passthrough
    transformer_,   \* OptionalPassthrough.transformer_ : reference, 0 = None
    columns,        \* ColumnwiseTransformer.columns
    columns_,       \* ColumnwiseTransformer.columns_
    transformers_,  \* ColumnwiseTransformer.transformers_ : column name -> reference
    _is_fitted,     \* the meta-transformer's _is_fitted flag
    op,             \* the method call in progress ("none" when idle)
    argZ,           \* the argument Z as the caller passed it
    callerZ,        \* the caller's object Z as it is when the call ends
    argX,           \* the argument X of the call
    ret,            \* what the call returned or raised
    calls,          \* methods of wrapped transformers invoked during the call
    test,           \* the test of TestAllClassifiers that is running ("none" when idle)
    pc,             \* the line the test is at
    outcome,        \* "running", "passed" or "failed"
    scenario,       \* the test scenario: training labels, n_classes, instances of X_new
    tags,           \* tags and attributes of estimator_instance the test has read
    est_fitted,     \* whether estimator_instance holds fitted state
    fit_result,     \* what fit on multivariate X raised and warned
    y_pred,         \* result of fit, predict
    y_proba,        \* result of predict_proba
    train_proba     \* result of _get_train_probs

compose_vars == <<heap, passthrough, transformer_, columns, columns_,
                  transformers_, _is_fitted, op, argZ, callerZ, argX, ret, calls>>

clf_vars == <<test, pc, outcome, scenario, tags, est_fitted, fit_result,
              y_pred, y_proba, train_proba>>

vars == <<compose_vars, clf_vars>>

-----------------------------------------------------------------------------
(* Bounds *)

MaxVal == 1     \* series start at a value in 0..MaxVal
NRows == 2      \* length of the index of every series
MaxX == 1       \* X is None (0) or an exogenous offset in 1..MaxX
MaxCols == 2    \* longest `columns` list or tuple
MaxInst == 2    \* most instances in X_new, most rows an estimator returns
MaxClasses == 2 \* most classes in a scenario, most columns an estimator returns

-----------------------------------------------------------------------------
(* Data: pd.Series, pd.DataFrame, np.ndarray and non-series inputs *)

EmptyMap == [c \in {} |-> <<>>]

RECURSIVE SeqSet(_)
SeqSet(s) == IF s = <<>> THEN {} ELSE {Head(s)} \cup SeqSet(Tail(s))

\* column names: "a", "b" are str; "int0" is the int 0 (the column name of an
\* unnamed series after to_frame(), or of a frame built from an array);
\* "None" is the name of an unnamed pd.Series
StrNames == {"a", "b"}
ColNames == StrNames \cup {"int0"}

Ramp(v) == [i \in 1..NRows |-> v + i - 1]
Values == {Ramp(v) : v \in 0..MaxVal}

NoFrame == [kind |-> "none", cols |-> <<>>, data |-> EmptyMap]
MkSeries(name, vals) == [kind |-> "Series", cols |-> <<name>>, data |-> (name :> vals)]
MkFrame(cs, d) == [kind |-> "DataFrame", cols |-> cs, data |-> d]
NdArray == [kind |-> "ndarray", cols |-> <<>>, data |-> ("int0" :> Ramp(0))]
NotSeries == [kind |-> "invalid", cols |-> <<>>, data |-> EmptyMap]

ColOrders == {<<"a">>, <<"a", "b">>, <<"b", "a">>, <<"int0", "a">>}
SeriesInputs == {MkSeries(n, v) : n \in {"None", "a", "b"}, v \in Values}
FrameInputs == UNION {{MkFrame(cs, d) : d \in [SeqSet(cs) -> Values]} : cs \in ColOrders}
ZInputs == SeriesInputs \cup FrameInputs \cup {NdArray, NotSeries}
XInputs == 0..MaxX

\* return values
Returned(v) == [kind |-> "return", exc |-> "", val |-> v]
Raised(e) == [kind |-> "raise", exc |-> e, val |-> NoFrame]
NoRet == [kind |-> "none", exc |-> "", val |-> NoFrame]
Self == [kind |-> "self", cols |-> <<>>, data |-> EmptyMap]

-----------------------------------------------------------------------------
(* The wrapped transformer (the `transformer` parameter): an estimator that *)
(* learns an offset in fit and shifts a series by it in transform.         *)

Unfitted(h) == [has_inverse |-> h, fitted |-> FALSE, offset |-> 0]
TransformerParams == {Unfitted(h) : h \in BOOLEAN}

T_fit(t, s) == [t EXCEPT !.fitted = TRUE, !.offset = s.data[s.cols[1]][1]]
T_transform(t, s, X) ==
    MkSeries(s.cols[1], [i \in 1..NRows |-> s.data[s.cols[1]][i] - t.offset + X])
T_inverse_transform(t, s, X) ==
    MkSeries(s.cols[1], [i \in 1..NRows |-> s.data[s.cols[1]][i] + t.offset - X])

\* sklearn.base.clone: a new unfitted object with the same parameters
clone_alias(h, r) == [heap |-> h, ref |-> r]
clone(h, r) == [heap |-> Append(h, Unfitted(h[r].has_inverse)), ref |-> Len(h) + 1]

\* sktime.utils.validation.series.check_series: the input itself when it is a
\* series, a frame or (where allowed) an array; an error otherwise
check_series(Z, allow_numpy) ==
    IF Z.kind \in {"Series", "DataFrame"} \/ (allow_numpy /\ Z.kind = "ndarray")
    THEN Returned(Z) ELSE Raised("ValueError:check_series")

\* if_delegate_has_method(delegate="transformer")
if_delegate_has_method(h) == h[1].has_inverse

\* BaseEstimator.check_is_fitted
check_is_fitted == _is_fitted

\* a wrapped transformer's methods as the meta-transformers call them: the
\* wrapped estimator validates its own input and its own fitted state
Wrapped_fit(h, r, s) ==
    IF s.kind # "Series" THEN [heap |-> h, ret |-> Raised("ValueError:wrapped")]
    ELSE [heap |-> [h EXCEPT ![r] = T_fit(h[r], s)], ret |-> Returned(Self)]
Wrapped_transform(h, r, s, X) ==
    IF ~h[r].fitted THEN Raised("NotFittedError:wrapped")
    ELSE Returned(T_transform(h[r], s, X))
Wrapped_inverse_transform(h, r, s, X) ==
    IF ~h[r].has_inverse THEN Raised("AttributeError")
    ELSE IF ~h[r].fitted THEN Raised("NotFittedError:wrapped")
    ELSE Returned(T_inverse_transform(h[r], s, X))

-----------------------------------------------------------------------------
(* Arrays and scenarios of the classifier tests *)

NoArray == [type |-> "none", shape |-> <<>>, data |-> <<>>]
NoScenario == [y_train |-> <<>>, n_classes |-> 0, n_new |-> 0]
NoFit == [raised |-> "none", warned |-> {}]
NoTags == [t \in {} |-> FALSE]

\* the state of the harness between tests
clf_idle ==
    /\ test = "none" /\ pc = "idle" /\ outcome = "none"
    /\ scenario = NoScenario /\ tags = NoTags /\ est_fitted = FALSE
    /\ fit_result = NoFit
    /\ y_pred = NoArray /\ y_proba = NoArray /\ train_proba = NoArray

-----------------------------------------------------------------------------
(* OptionalPassthrough *)

OPInputs == SeriesInputs \cup {NotSeries}

\* __init__(transformer, passthrough=False)
OptionalPassthrough_init ==
    /\ heap \in {<<t>> : t \in TransformerParams}
    /\ passthrough \in BOOLEAN
    /\ transformer_ = 0
    /\ _is_fitted = FALSE
    /\ columns = [kind |-> "None", elems |-> <<>>]
    /\ columns_ = [kind |-> "unset", elems |-> <<>>]
    /\ transformers_ = EmptyMap
    /\ op = "none" /\ argZ = NoFrame /\ callerZ = NoFrame /\ argX = 0
    /\ ret = NoRet /\ calls = <<>>
    /\ clf_idle

\* fit, lines 103-105
OptionalPassthrough_fit_body(Z) ==
    IF ~passthrough
    THEN LET c == clone(<<heap[1]>>, 1)
             f == Wrapped_fit(c.heap, c.ref, Z)
         IN [heap |-> f.heap, transformer_ |-> c.ref, ret |-> f.ret,
             calls |-> <<"clone", "fit">>]
    ELSE [heap |-> heap, transformer_ |-> transformer_, ret |-> Returned(Self),
          calls |-> <<>>]

OptionalPassthrough_fit(Z, X) ==
    /\ op = "none"
    /\ LET b == OptionalPassthrough_fit_body(Z)
       IN /\ heap' = b.heap
          /\ transformer_' = b.transformer_
          /\ calls' = b.calls
          /\ ret' = b.ret
          /\ _is_fitted' = IF b.ret.kind = "raise" THEN _is_fitted ELSE TRUE
    /\ op' = "fit" /\ argZ' = Z /\ callerZ' = Z /\ argX' = X
    /\ UNCHANGED <<passthrough, columns, columns_, transformers_, clf_vars>>

\* transform, lines 124-128
OptionalPassthrough_transform_apply_always(Z, X) ==
    IF ~check_is_fitted THEN [ret |-> Raised("NotFittedError"), calls |-> <<>>]
    ELSE LET v == check_series(Z, TRUE)
         IN IF v.kind = "raise" THEN [ret |-> v, calls |-> <<>>]
            ELSE IF transformer_ = 0 THEN [ret |-> Raised("AttributeError"), calls |-> <<>>]
            ELSE [ret |-> Wrapped_transform(heap, transformer_, v.val, X),
                  calls |-> <<"transform">>]
OptionalPassthrough_transform_body(Z, X) ==
    IF ~check_is_fitted THEN [ret |-> Raised("NotFittedError"), calls |-> <<>>]
    ELSE LET v == check_series(Z, TRUE)
         IN IF v.kind = "raise" THEN [ret |-> v, calls |-> <<>>]
            ELSE IF ~passthrough
            THEN IF transformer_ = 0
                 THEN [ret |-> Raised("AttributeError"), calls |-> <<>>]
                 ELSE [ret |-> Wrapped_transform(heap, transformer_, v.val, X),
                       calls |-> <<"transform">>]
            ELSE [ret |-> Returned(v.val), calls |-> <<>>]

OptionalPassthrough_transform(Z, X) ==
    /\ op = "none"
    /\ LET b == OptionalPassthrough_transform_body(Z, X)
       IN ret' = b.ret /\ calls' = b.calls
    /\ op' = "transform" /\ argZ' = Z /\ callerZ' = Z /\ argX' = X
    /\ UNCHANGED <<heap, passthrough, transformer_, columns, columns_,
                   transformers_, _is_fitted, clf_vars>>

\* inverse_transform, lines 130-150
OptionalPassthrough_inverse_transform_body(Z, X) ==
    IF ~if_delegate_has_method(heap) THEN [ret |-> Raised("AttributeError"), calls |-> <<>>]
    ELSE IF ~check_is_fitted THEN [ret |-> Raised("NotFittedError"), calls |-> <<>>]
    ELSE LET v == check_series(Z, TRUE)
         IN IF v.kind = "raise" THEN [ret |-> v, calls |-> <<>>]
            ELSE IF ~passthrough
            THEN IF transformer_ = 0
                 THEN [ret |-> Raised("AttributeError"), calls |-> <<>>]
                 ELSE [ret |-> Wrapped_inverse_transform(heap, transformer_, v.val, X),
                       calls |-> <<"inverse_transform">>]
            ELSE [ret |-> Returned(v.val), calls |-> <<>>]

OptionalPassthrough_inverse_transform(Z, X) ==
    /\ op = "none"
    /\ LET b == OptionalPassthrough_inverse_transform_body(Z, X)
       IN ret' = b.ret /\ calls' = b.calls
    /\ op' = "inverse_transform" /\ argZ' = Z /\ callerZ' = Z /\ argX' = X
    /\ UNCHANGED <<heap, passthrough, transformer_, columns, columns_,
                   transformers_, _is_fitted, clf_vars>>

\* the caller takes the result; the call is over
Return ==
    /\ op # "none"
    /\ op' = "none" /\ argZ' = NoFrame /\ callerZ' = NoFrame /\ argX' = 0
    /\ ret' = NoRet /\ calls' = <<>>
    /\ UNCHANGED <<heap, passthrough, transformer_, columns, columns_,
                   transformers_, _is_fitted, clf_vars>>

OptionalPassthrough_next ==
    \/ \E Z \in OPInputs, X \in XInputs : OptionalPassthrough_fit(Z, X)
    \/ \E Z \in OPInputs, X \in XInputs : OptionalPassthrough_transform(Z, X)
    \/ \E Z \in OPInputs, X \in XInputs : OptionalPassthrough_inverse_transform(Z, X)
    \/ Return

SpecOP == OptionalPassthrough_init /\ [][OptionalPassthrough_next]_vars

-----------------------------------------------------------------------------
(* ColumnwiseTransformer *)

RECURSIVE SeqsUpTo(_, _)
SeqsUpTo(S, n) ==
    IF n = 0 THEN {<<>>}
    ELSE LET shorter == SeqsUpTo(S, n - 1)
         IN shorter \cup {Append(q, x) : q \in {r \in shorter : Len(r) = n - 1}, x \in S}

\* values of the `columns` parameter: None, a list, a tuple and the single string
\* "ab" (iterating it yields the strings "a" and "b")
ColumnsParams ==
    {[kind |-> "None", elems |-> <<>>], [kind |-> "str", elems |-> <<"a", "b">>]}
    \cup {[kind |-> k, elems |-> e] : k \in {"list", "tuple"}, e \in SeqsUpTo(ColNames, MaxCols)}

isinstance_str(x) == x \in StrNames

\* pd.Series.to_frame: an unnamed series becomes the column 0
to_frame(s) ==
    LET n == IF s.cols[1] = "None" THEN "int0" ELSE s.cols[1]
    IN MkFrame(<<n>>, (n :> s.data[s.cols[1]]))
\* pd.DataFrame.squeeze("columns") of a one-column frame
squeeze(z) == IF Len(z.cols) = 1 THEN MkSeries(z.cols[1], z.data[z.cols[1]]) ELSE z
\* z[colname]
ColumnOf(z, c) == MkSeries(c, z.data[c])

\* __init__(transformer, columns=None)
ColumnwiseTransformer_init ==
    /\ heap \in {<<t>> : t \in TransformerParams}
    /\ columns \in ColumnsParams
    /\ columns_ = [kind |-> "unset", elems |-> <<>>]
    /\ transformers_ = EmptyMap
    /\ _is_fitted = FALSE
    /\ passthrough = FALSE
    /\ transformer_ = 0
    /\ op = "none" /\ argZ = NoFrame /\ callerZ = NoFrame /\ argX = 0
    /\ ret = NoRet /\ calls = <<>>
    /\ clf_idle

\* fit, lines 219-224: "ok", or the exception the check ends in
columns_check(c) ==
    IF c.kind = "None" THEN "ok"
    ELSE IF ~(c.kind = "list")
    THEN IF \A i \in 1..Len(c.elems) : isinstance_str(c.elems[i])
         THEN "ValueError:Columns need to be a list of strings or None."
         ELSE "ok"
    ELSE "ok"

\* _check_columns, lines 347-353: TRUE when nothing is missing
_check_columns(z, selected_columns) ==
    SeqSet(selected_columns.elems) \ SeqSet(z.cols) = {}

\* fit, lines 236-240
RECURSIVE fit_loop(_, _, _, _, _)
fit_loop(cs, h, tr, n, z) ==
    IF cs = <<>> THEN [heap |-> h, transformers_ |-> tr, n |-> n]
    ELSE LET colname == Head(cs)
             c == clone(h, 1)
             tr2 == (colname :> c.ref) @@ tr
             f == Wrapped_fit(c.heap, tr2[colname], ColumnOf(z, colname))
         IN fit_loop(Tail(cs), f.heap, tr2, n + 1, z)

RECURSIVE Repeat(_, _)
Repeat(q, n) == IF n = 0 THEN <<>> ELSE q \o Repeat(q, n - 1)

\* fit, lines 211-242
ColumnwiseTransformer_fit_body(Z, X) ==
    LET same == [heap |-> heap, columns_ |-> columns_, transformers_ |-> transformers_,
                 calls |-> <<>>]
        v == check_series(Z, FALSE)
    IN IF v.kind = "raise" THEN same @@ [ret |-> v]
       ELSE LET z == IF v.val.kind = "Series" THEN to_frame(v.val) ELSE v.val
                chk == columns_check(columns)
                cols == IF columns.kind = "None"
                        THEN [kind |-> "Index", elems |-> z.cols] ELSE columns
            IN IF chk # "ok" THEN same @@ [ret |-> Raised(chk)]
               ELSE IF ~_check_columns(z, cols)
               THEN [same EXCEPT !.columns_ = cols] @@ [ret |-> Raised("ValueError:Missing columns")]
               ELSE LET l == fit_loop(cols.elems, <<heap[1]>>, EmptyMap, 0, z)
                    IN [heap |-> l.heap, columns_ |-> cols, transformers_ |-> l.transformers_,
                        calls |-> Repeat(<<"clone", "fit">>, l.n), ret |-> Returned(Self)]

ColumnwiseTransformer_fit(Z, X) ==
    /\ op = "none"
    /\ LET b == ColumnwiseTransformer_fit_body(Z, X)
       IN /\ heap' = b.heap
          /\ columns_' = b.columns_
          /\ transformers_' = b.transformers_
          /\ calls' = b.calls
          /\ ret' = b.ret
          /\ _is_fitted' = (b.ret.kind = "return")
    /\ op' = "fit" /\ argZ' = Z /\ callerZ' = Z /\ argX' = X
    /\ UNCHANGED <<passthrough, transformer_, columns, clf_vars>>

\* _check_is_pdseries, lines 356-362
_check_is_pdseries(z) ==
    IF z.kind = "Series" THEN [z |-> to_frame(z), is_series |-> TRUE]
    ELSE [z |-> z, is_series |-> FALSE]

\* z.copy(), lines 266 and 302: `same` tells whether the result is still the
\* object it was made from
copy_none(z, same) == [z |-> z, same |-> same]
copy(z, same) == [z |-> z, same |-> FALSE]

\* the loops of lines 270-271 and 308-309; m is the wrapped method applied
RECURSIVE apply_loop(_, _, _, _, _)
apply_loop(cs, z, X, m, n) ==
    IF cs = <<>> THEN [z |-> z, ret |-> Returned(z), n |-> n]
    ELSE LET colname == Head(cs)
             r == IF m = "transform"
                  THEN Wrapped_transform(heap, transformers_[colname], ColumnOf(z, colname), X)
                  ELSE Wrapped_inverse_transform(heap, transformers_[colname],
                                                 ColumnOf(z, colname), X)
         IN IF r.kind = "raise" THEN [z |-> z, ret |-> r, n |-> n + 1]
            ELSE apply_loop(Tail(cs),
                            [z EXCEPT !.data[colname] = r.val.data[r.val.cols[1]]],
                            X, m, n + 1)

\* transform, lines 259-276, and inverse_transform, lines 295-314
ColumnwiseTransformer_apply(Z, X, m) ==
    LET quiet == [callerZ |-> Z, calls |-> <<>>]
    IN IF ~check_is_fitted THEN quiet @@ [ret |-> Raised("NotFittedError")]
       ELSE LET v == check_series(Z, TRUE)
            IN IF v.kind = "raise" THEN quiet @@ [ret |-> v]
               ELSE LET p == _check_is_pdseries(v.val)
                        c == copy(p.z, ~p.is_series)
                    IN IF c.z.kind = "ndarray"
                       THEN quiet @@ [ret |-> Raised("AttributeError")]
                       ELSE IF ~_check_columns(c.z, columns_)
                       THEN quiet @@ [ret |-> Raised("ValueError:Missing columns")]
                       ELSE LET l == apply_loop(columns_.elems, c.z, X, m, 0)
                            IN [callerZ |-> IF c.same THEN l.z ELSE Z,
                                calls |-> Repeat(<<m>>, l.n),
                                ret |-> IF l.ret.kind = "raise" THEN l.ret
                                        ELSE IF p.is_series THEN Returned(squeeze(l.z))
                                        ELSE Returned(l.z)]

ColumnwiseTransformer_transform(Z, X) ==
    /\ op = "none"
    /\ LET b == ColumnwiseTransformer_apply(Z, X, "transform")
       IN ret' = b.ret /\ calls' = b.calls /\ callerZ' = b.callerZ
    /\ op' = "transform" /\ argZ' = Z /\ argX' = X
    /\ UNCHANGED <<heap, passthrough, transformer_, columns, columns_,
                   transformers_, _is_fitted, clf_vars>>

ColumnwiseTransformer_inverse_transform(Z, X) ==
    /\ op = "none"
    /\ LET b == IF ~if_delegate_has_method(heap)
                THEN [callerZ |-> Z, calls |-> <<>>, ret |-> Raised("AttributeError")]
                ELSE ColumnwiseTransformer_apply(Z, X, "inverse_transform")
       IN ret' = b.ret /\ calls' = b.calls /\ callerZ' = b.callerZ
    /\ op' = "inverse_transform" /\ argZ' = Z /\ argX' = X
    /\ UNCHANGED <<heap, passthrough, transformer_, columns, columns_,
                   transformers_, _is_fitted, clf_vars>>

ColumnwiseTransformer_next ==
    \/ \E Z \in ZInputs, X \in XInputs : ColumnwiseTransformer_fit(Z, X)
    \/ \E Z \in ZInputs, X \in XInputs : ColumnwiseTransformer_transform(Z, X)
    \/ \E Z \in ZInputs, X \in XInputs : ColumnwiseTransformer_inverse_transform(Z, X)
    \/ Return

SpecCW == ColumnwiseTransformer_init /\ [][ColumnwiseTransformer_next]_vars

-----------------------------------------------------------------------------
(* TestAllClassifiers: the estimator under test is whatever the fixture     *)
(* generator hands in, so what its methods return is drawn from all the     *)
(* outputs an estimator can produce; its tags are read when the test asks.  *)

\* the meta-transformers are not part of these tests
compose_idle ==
    /\ heap = <<Unfitted(FALSE)>>
    /\ passthrough = FALSE /\ transformer_ = 0
    /\ columns = [kind |-> "None", elems |-> <<>>]
    /\ columns_ = [kind |-> "unset", elems |-> <<>>]
    /\ transformers_ = EmptyMap
    /\ _is_fitted = FALSE
    /\ op = "none" /\ argZ = NoFrame /\ callerZ = NoFrame /\ argX = 0
    /\ ret = NoRet /\ calls = <<>>

TestAllClassifiers_init == compose_idle /\ clf_idle

\* scenarios: k classes 0..k-1 in y_train (the first one twice), n instances in X_new
Scenarios ==
    {[y_train |-> [i \in 1..(k + 1) |-> IF i = k + 1 THEN 0 ELSE i - 1],
      n_classes |-> k, n_new |-> n] : k \in 2..MaxClasses, n \in 1..MaxInst}

\* probabilities are fixed-point numbers, One stands for 1.0
One == 10 ^ 5
decimal == 4
\* a row of probabilities puts all its mass on one class, exactly or with an
\* excess of 1e-4 or 2e-4
ProbErrs == {0, 10, 20}
Rows(c) == {[j \in 1..c |-> IF j = h THEN One + e ELSE 0] : h \in 1..c, e \in ProbErrs}

Abs(x) == IF x < 0 THEN -x ELSE x
RECURSIVE Sum(_)
Sum(q) == IF q = <<>> THEN 0 ELSE Head(q) + Sum(Tail(q))

\* what predict can return: an array or list of shape (m,) or (m, 1) (its data
\* held flat) of labels, seen or unseen
ArrayTypes == {"ndarray", "list"}
PredOutputs ==
    UNION {{[type |-> t, shape |-> sh, data |-> d] :
               t \in ArrayTypes, sh \in {<<m>>, <<m, 1>>}, d \in [1..m -> 0..MaxClasses]} :
           m \in 1..MaxInst}

\* what predict_proba and _get_train_probs can return: r rows of c numbers
Matrices(r, c) ==
    {[i \in 1..r |-> IF i = k THEN b ELSE a] :
        a \in Rows(c), b \in Rows(c), k \in 1..r}
ProbaOutputs(types) ==
    UNION {{[type |-> t, shape |-> <<r, c>>, data |-> d] : t \in types, d \in Matrices(r, c)} :
           r \in 1..MaxInst, c \in 1..MaxClasses}

\* what fit on multivariate X can do: raise or not, and warn
FitOutcomes ==
    [raised : {"none", "ValueError:multivariate series", "ValueError:other",
               "TypeError:multivariate series"},
     warned : SUBSET {"UserWarning:multivariate series", "UserWarning:other",
                      "FutureWarning:multivariate series"}]

\* numpy: shape, unique, isin, sum(axis=1), testing.assert_almost_equal
shape(a) == a.shape
np_unique(a) == SeqSet(a.data)
sum_axis1(a) == [i \in 1..Len(a.data) |-> Sum(a.data[i])]
assert_almost_equal_decimal3(actual, desired) ==
    \A i \in 1..Len(actual) : 2 * Abs(desired - actual[i]) < 3 * 10 ^ (5 - (decimal - 1))
assert_almost_equal(actual, desired) ==
    \A i \in 1..Len(actual) : 2 * Abs(desired - actual[i]) < 3 * 10 ^ (5 - decimal)

\* a fit that raises leaves the estimator without fitted state
classifier_fit(f) == f.raised = "none"

\* scenario.run(estimator_instance, method_sequence): the result of the last method
scenario_run(outputs) == outputs

test_start(name, line) ==
    /\ test = "none"
    /\ test' = name /\ pc' = line /\ outcome' = "running"
    /\ UNCHANGED <<tags, est_fitted, fit_result, y_pred, y_proba, train_proba, compose_vars>>

test_end(passed) ==
    /\ pc' = "done" /\ outcome' = IF passed THEN "passed" ELSE "failed"

\* test_multivariate_input_exception, line 47
test_multivariate_input_exception ==
    /\ test_start("test_multivariate_input_exception", "line53")
    /\ UNCHANGED scenario

\* lines 53-54
test_multivariate_input_exception_line53(multivariate) ==
    /\ test = "test_multivariate_input_exception" /\ pc = "line53"
    /\ tags' = ("capability:multivariate" :> multivariate)
    /\ IF multivariate THEN test_end(TRUE) ELSE pc' = "line62" /\ outcome' = outcome
    /\ UNCHANGED <<test, scenario, est_fitted, fit_result, y_pred, y_proba, train_proba,
                   compose_vars>>

\* lines 63-64, pytest.warns(UserWarning, match=error_msg)
pytest_warns(f) == f.raised = "none" /\ "UserWarning:multivariate series" \in f.warned
\* lines 66-67, pytest.raises(ValueError, match=error_msg)
pytest_raises_any(f) == f.raised # "none"
pytest_raises(f) == f.raised = "ValueError:multivariate series"

\* lines 62-67
multivariate_check_swapped(is_composite, f) ==
    IF is_composite THEN pytest_raises(f) ELSE pytest_warns(f)
multivariate_check(is_composite, f) ==
    IF is_composite THEN pytest_warns(f) ELSE pytest_raises(f)

test_multivariate_input_exception_line62(is_composite, f) ==
    /\ test = "test_multivariate_input_exception" /\ pc = "line62"
    /\ tags' = tags @@ ("is_composite" :> is_composite)
    /\ fit_result' = f
    /\ est_fitted' = classifier_fit(f)
    /\ test_end(multivariate_check(is_composite, f))
    /\ UNCHANGED <<test, scenario, y_pred, y_proba, train_proba, compose_vars>>

\* test_classifier_output, lines 69-81
test_classifier_output(sc) ==
    /\ test_start("test_classifier_output", "line84")
    /\ scenario' = sc

\* line 84
test_classifier_output_line84(y) ==
    /\ test = "test_classifier_output" /\ pc = "line84"
    /\ y_pred' = scenario_run(y)
    /\ est_fitted' = TRUE
    /\ pc' = "line87"
    /\ UNCHANGED <<test, outcome, scenario, tags, fit_result, y_proba, train_proba,
                   compose_vars>>

\* lines 87-89
assert_predict_no_isin(y, sc) ==
    /\ y.type = "ndarray"
    /\ shape(y) = <<sc.n_new>>
assert_predict_no_shape(y, sc) ==
    /\ y.type = "ndarray"
    /\ np_unique(y) \subseteq SeqSet(sc.y_train)
assert_predict(y, sc) ==
    /\ y.type = "ndarray"
    /\ shape(y) = <<sc.n_new>>
    /\ np_unique(y) \subseteq SeqSet(sc.y_train)

test_classifier_output_line87 ==
    /\ test = "test_classifier_output" /\ pc = "line87"
    /\ IF assert_predict(y_pred, scenario)
       THEN pc' = "line92" /\ outcome' = outcome
       ELSE test_end(FALSE)
    /\ UNCHANGED <<test, scenario, tags, est_fitted, fit_result, y_pred, y_proba,
                   train_proba, compose_vars>>

\* line 92; y_pred is not read again
test_classifier_output_line92(p) ==
    /\ test = "test_classifier_output" /\ pc = "line92"
    /\ y_proba' = scenario_run(p)
    /\ y_pred' = NoArray
    /\ pc' = "line93"
    /\ UNCHANGED <<test, outcome, scenario, tags, est_fitted, fit_result, train_proba,
                   compose_vars>>

\* lines 93-94 (and again 107-108)
assert_proba_shape(p, sc) ==
    /\ p.type = "ndarray"
    /\ shape(p) = <<sc.n_new, sc.n_classes>>

\* lines 93-95
test_classifier_output_line93 ==
    /\ test = "test_classifier_output" /\ pc = "line93"
    /\ IF assert_proba_shape(y_proba, scenario)
          /\ assert_almost_equal(sum_axis1(y_proba), One)
       THEN pc' = "line97" /\ outcome' = outcome
       ELSE test_end(FALSE)
    /\ UNCHANGED <<test, scenario, tags, est_fitted, fit_result, y_pred, y_proba,
                   train_proba, compose_vars>>

\* lines 97-108; y_proba is not read after line 108
test_classifier_output_line97(train_estimate, has_get_train_probs, tp) ==
    /\ test = "test_classifier_output" /\ pc = "line97"
    /\ y_proba' = NoArray
    /\ IF ~train_estimate
       THEN /\ tags' = ("capability:train_estimate" :> FALSE)
            /\ train_proba' = NoArray
            /\ test_end(TRUE)
       ELSE /\ tags' = ("capability:train_estimate" :> TRUE)
                       @@ ("_get_train_probs" :> has_get_train_probs)
            /\ IF ~has_get_train_probs
               THEN train_proba' = NoArray /\ test_end(FALSE)
               ELSE /\ train_proba' = tp
                    /\ IF assert_proba_shape(y_proba, scenario)
                       THEN pc' = "line109" /\ outcome' = outcome
                       ELSE test_end(FALSE)
    /\ UNCHANGED <<test, scenario, est_fitted, fit_result, y_pred, compose_vars>>

\* line 109
test_classifier_output_line109 ==
    /\ test = "test_classifier_output" /\ pc = "line109"
    /\ test_end(assert_almost_equal(sum_axis1(train_proba), One))
    /\ UNCHANGED <<test, scenario, tags, est_fitted, fit_result, y_pred, y_proba,
                   train_proba, compose_vars>>

\* the test is over; the next one gets its own fixtures
test_teardown ==
    /\ pc = "done"
    /\ test' = "none" /\ pc' = "idle" /\ outcome' = "none"
    /\ scenario' = NoScenario /\ tags' = NoTags /\ est_fitted' = FALSE
    /\ fit_result' = NoFit
    /\ y_pred' = NoArray /\ y_proba' = NoArray /\ train_proba' = NoArray
    /\ UNCHANGED compose_vars

TestAllClassifiers_next ==
    \/ test_multivariate_input_exception
    \/ \E b \in BOOLEAN : test_multivariate_input_exception_line53(b)
    \/ \E b \in BOOLEAN, f \in FitOutcomes : test_multivariate_input_exception_line62(b, f)
    \/ \E sc \in Scenarios : test_classifier_output(sc)
    \/ \E y \in PredOutputs : test_classifier_output_line84(y)
    \/ test_classifier_output_line87
    \/ \E p \in ProbaOutputs(ArrayTypes) : test_classifier_output_line92(p)
    \/ test_classifier_output_line93
    \/ test_classifier_output_line97(FALSE, FALSE, NoArray)
    \/ test_classifier_output_line97(TRUE, FALSE, NoArray)
    \/ \E tp \in ProbaOutputs({"ndarray"}) : test_classifier_output_line97(TRUE, TRUE, tp)
    \/ test_classifier_output_line109
    \/ test_teardown

SpecClf == TestAllClassifiers_init /\ [][TestAllClassifiers_next]_vars

Init == OptionalPassthrough_init \/ ColumnwiseTransformer_init \/ TestAllClassifiers_init
Next == OptionalPassthrough_next \/ ColumnwiseTransformer_next \/ TestAllClassifiers_next
Spec == Init /\ [][Next]_vars

-----------------------------------------------------------------------------
(* Properties of the classifier contract (checked under SpecClf): what holds *)
(* of every estimator and scenario once the test's assertions have passed   *)

PredictAsserted == test = "test_classifier_output" /\ pc = "line92"
ProbaAsserted == test = "test_classifier_output" /\ pc = "line97"
OutputPassed == test = "test_classifier_output" /\ outcome = "passed"
MultivariatePassed == test = "test_multivariate_input_exception" /\ outcome = "passed"
Tag(t) == t \in DOMAIN tags /\ tags[t]
NotTag(t) == t \in DOMAIN tags /\ ~tags[t]
RowsSumToOne(a) ==
    \A i \in 1..Len(a.data) :
        Sum(a.data[i]) > One - 15 /\ Sum(a.data[i]) < One + 15

\* C1: after fit then predict, every predicted label occurs in the training
\* labels y passed to fit.
C1_labels_seen_in_training ==
    PredictAsserted =>
        \A i \in 1..Len(y_pred.data) :
            \E j \in 1..Len(scenario.y_train) : y_pred.data[i] = scenario.y_train[j]

C1_witness ==
    /\ PredictAsserted /\ Len(y_pred.data) = 2
    /\ y_pred.data[1] # y_pred.data[2]

\* C2: each row of predict_proba sums to 1 to 4 decimal places; with
\* capability:train_estimate true, _get_train_probs exists and each row of its
\* output sums to 1 to 4 decimal places.
C2_probabilities_sum_to_one ==
    /\ ProbaAsserted => RowsSumToOne(y_proba)
    /\ OutputPassed /\ Tag("capability:train_estimate") =>
           Tag("_get_train_probs") /\ RowsSumToOne(train_proba)

C2_witness ==
    /\ OutputPassed /\ Tag("capability:train_estimate")
    /\ Len(train_proba.data) = 2
    /\ Sum(train_proba.data[1]) = One + 10 /\ Sum(train_proba.data[2]) = One

C4_handles == Tag("capability:multivariate") /\ DOMAIN tags = {"capability:multivariate"}
                 /\ fit_result = NoFit
C4_warns == NotTag("capability:multivariate") /\ Tag("is_composite")
               /\ "UserWarning:multivariate series" \in fit_result.warned
               /\ fit_result.raised = "none"
C4_raises == NotTag("capability:multivariate") /\ NotTag("is_composite")
                /\ fit_result.raised = "ValueError:multivariate series"
-----------------------------------------------------------------------------
(* Properties of OptionalPassthrough (checked under SpecOP) *)

OP_valid_call(m) == op = m /\ _is_fitted /\ argZ.kind \in {"Series", "DataFrame", "ndarray"}

\* passthrough on: fit leaves transformer_ None, makes no clone and calls nothing
OP_fit_is_inert ==
    passthrough => transformer_ = 0 /\ Len(heap) = 1 /\ (op = "fit" => calls = <<>>)

\* passthrough on: a fitted transform returns the validated input, calling nothing
OP_transform_is_identity ==
    passthrough /\ OP_valid_call("transform") => ret = Returned(argZ) /\ calls = <<>>

\* passthrough off: transform returns what the fitted clone's transform(Z, X) returns
OP_transform_delegates ==
    ~passthrough /\ OP_valid_call("transform") =>
        /\ transformer_ > 1
        /\ calls = <<"transform">>
        /\ IF heap[transformer_].fitted
           THEN ret = Returned(MkSeries(argZ.cols[1],
                    [i \in 1..NRows |->
                        argZ.data[argZ.cols[1]][i] - heap[transformer_].offset + argX]))
           ELSE ret.kind = "raise"

\* C6 as stated: with passthrough=True, after fit, transform(Z) and
\* inverse_transform(Z) return the validated input unchanged and never call the
\* wrapped transformer; fit neither clones nor fits, transformer_ stays None;
\* with passthrough=False transform(Z) returns what the fitted clone's
\* transform(Z, X) returns.
C6_as_stated ==
    /\ OP_fit_is_inert
    /\ OP_transform_is_identity
    /\ passthrough /\ OP_valid_call("inverse_transform") =>
           ret = Returned(argZ) /\ calls = <<>>
    /\ OP_transform_delegates

\* C6 (amended): as C6, except that inverse_transform exists only when the
\* wrapped transformer has an inverse_transform method: with passthrough=True it
\* then returns the validated input unchanged and calls nothing, and without
\* that method the call raises AttributeError whatever passthrough is.
C6_passthrough_identity ==
    /\ OP_fit_is_inert
    /\ OP_transform_is_identity
    /\ passthrough /\ OP_valid_call("inverse_transform") /\ heap[1].has_inverse =>
           ret = Returned(argZ) /\ calls = <<>>
    /\ op = "inverse_transform" /\ ~heap[1].has_inverse =>
           ret = Raised("AttributeError") /\ calls = <<>>
    /\ OP_transform_delegates

C6_witness ==
    /\ passthrough /\ _is_fitted /\ heap[1].has_inverse
    /\ op = "inverse_transform" /\ argZ.kind = "Series" /\ ret = Returned(argZ)

-----------------------------------------------------------------------------
(* Properties of ColumnwiseTransformer (checked under SpecCW) *)

RECURSIVE Count(_, _)
Count(x, q) == IF q = <<>> THEN 0 ELSE (IF Head(q) = x THEN 1 ELSE 0) + Count(x, Tail(q))

FrameView(z) == IF z.kind = "Series" THEN to_frame(z) ELSE z
CW_returned == op \in {"transform", "inverse_transform"} /\ ret.kind = "return"

\* the output has the input's type, columns (set and order) and index, the columns
\* outside columns_ keep their values, and the caller's Z is left as it was
CW_frame ==
    CW_returned =>
        LET zin == FrameView(argZ)
            zout == FrameView(ret.val)
        IN /\ ret.val.kind = argZ.kind
           /\ zout.cols = zin.cols
           /\ DOMAIN zout.data = DOMAIN zin.data
           /\ \A c \in DOMAIN zin.data : DOMAIN zout.data[c] = DOMAIN zin.data[c]
           /\ \A c \in DOMAIN zin.data \ SeqSet(columns_.elems) : zout.data[c] = zin.data[c]
           /\ callerZ = argZ

\* column c of the output is column c of the input put k times through the
\* (inverse) transform of the transformer fitted for c
CW_column_is(c, k) ==
    LET t == heap[transformers_[c]]
        d == IF op = "transform" THEN argX - t.offset ELSE t.offset - argX
    IN /\ transformers_[c] > 1 /\ t.fitted
       /\ FrameView(ret.val).data[c] = [i \in 1..NRows |-> FrameView(argZ).data[c][i] + k * d]

\* C7 as stated: transform and inverse_transform return data of the input's shape
\* (same columns in the same order, same index), columns outside columns_ keep the
\* input's values, every column in columns_ is replaced by the result of that
\* column's own fitted transformer, Z itself is not modified, and a pd.Series
\* input yields a pd.Series.
C7_as_stated ==
    /\ CW_frame
    /\ CW_returned => \A c \in SeqSet(columns_.elems) : CW_column_is(c, 1)

\* C7 (amended): as C7, except that a column whose name occurs k times in
\* columns_ is replaced by the result of applying its own fitted transformer k
\* times in succession (once when columns_ names it once).
C7_same_shape ==
    /\ CW_frame
    /\ CW_returned =>
           \A c \in SeqSet(columns_.elems) : CW_column_is(c, Count(c, columns_.elems))

C7_witness ==
    /\ op = "transform" /\ ret.kind = "return" /\ argZ.kind = "DataFrame"
    /\ columns_.elems = <<"a", "a">> /\ argZ.cols = <<"b", "a">>
    /\ ret.val # argZ /\ ret.val.data["b"] = argZ.data["b"]

\* C8: fit raises ValueError("Columns need to be a list of strings or None.")
\* whenever columns is neither None nor a list of strings only, before any
\* transformer is cloned or fitted.
C8_columns_rejected ==
    op = "fit" /\ argZ.kind \in {"Series", "DataFrame"} /\ columns.kind # "None"
    /\ ~(columns.kind = "list" /\ \A i \in 1..Len(columns.elems) : columns.elems[i] \in StrNames)
    => /\ ret = Raised("ValueError:Columns need to be a list of strings or None.")
       /\ calls = <<>>

\* C9: after a successful fit(Z), columns_ is the columns parameter, or all
\* columns of Z when columns is None; transformers_ maps exactly the names in
\* columns_, each to its own clone of the transformer parameter fitted on that
\* one column of Z; nothing of an earlier fit remains.
C9_fit_state ==
    op = "fit" /\ ret.kind = "return" =>
        LET z == FrameView(argZ)
        IN /\ columns_ = IF columns.kind = "None"
                         THEN [kind |-> "Index", elems |-> z.cols] ELSE columns
           /\ DOMAIN transformers_ = SeqSet(columns_.elems)
           /\ \A c \in DOMAIN transformers_ :
                  /\ transformers_[c] > 1
                  /\ heap[transformers_[c]] =
                        [has_inverse |-> heap[1].has_inverse, fitted |-> TRUE,
                         offset |-> z.data[c][1]]
           /\ \A c, d \in DOMAIN transformers_ :
                  c # d => transformers_[c] # transformers_[d]
           /\ ~heap[1].fitted
           /\ _is_fitted

C9_witness ==
    /\ op = "fit" /\ ret.kind = "return" /\ columns.kind = "None"
    /\ argZ.kind = "DataFrame" /\ Len(argZ.cols) = 2
    /\ heap[transformers_["a"]].offset # heap[transformers_["b"]].offset

====
